---- MODULE Spec2Model ----
(***************************************************************************)
(* Model of the streaming reassembler of the Hugging Face -> OpenAI proxy  *)
(* (src/src/converter.py, HuggingFaceConverter.create_chat_completion_     *)
(* stream).  Text is a sequence of one-character strings, so that the      *)
(* substring test, split and strip of the source are computed, not assumed.*)
(***************************************************************************)
EXTENDS Integers, Sequences, FiniteSets, TLC

\* ------------------------------------------------------------------ bounds
\* Longest upstream delta sequence explored.
MaxDeltas == 3

\* ------------------------------------------------------- Optional values
\* Python's None / a present value: the empty tuple / a one-element tuple.
None == << >>

Some(v) == << v >>

\* --------------------------------------------------------- text helpers
\* The literal '</think>' tested at converter.py:168 and split on at :170.
Marker == << "<", "/", "t", "h", "i", "n", "k", ">" >>

\* Characters str.strip() removes (the ones that occur in the inputs).
Whitespace == { " ", "\n", "\t" }

RECURSIVE lstrip(_)
lstrip(s) ==
    IF s = << >> THEN s
    ELSE IF Head(s) \in Whitespace THEN lstrip(Tail(s)) ELSE s

RECURSIVE rstrip(_)
rstrip(s) ==
    IF s = << >> THEN s
    ELSE IF s[Len(s)] \in Whitespace THEN rstrip(SubSeq(s, 1, Len(s) - 1)) ELSE s

\* str.strip(): leading and trailing whitespace removed.
strip(s) == rstrip(lstrip(s))

\* Positions (1-based) at which m occurs in s.
Occurrences(s, m) ==
    { i \in 1 .. (Len(s) - Len(m) + 1) : SubSeq(s, i, i + Len(m) - 1) = m }

\* Python's `m in s` on strings.
Contains(s, m) == Occurrences(s, m) # {}

\* 1-based position of the first occurrence of m in s (only used when present).
find(s, m) == CHOOSE i \in Occurrences(s, m) : \A j \in Occurrences(s, m) : i <= j

\* str.split(m, 1): one part when m is absent, two parts around the first m.
split1(s, m) ==
    IF Contains(s, m)
    THEN << SubSeq(s, 1, find(s, m) - 1),
            SubSeq(s, find(s, m) + Len(m), Len(s)) >>
    ELSE << s >>

\* str.lower() on the characters that occur in the model identifiers.
LowerChar(c) ==
    CASE c = "D" -> "d"
      [] c = "S" -> "s"
      [] c = "T" -> "t"
      [] OTHER   -> c

lower(s) == [ i \in 1 .. Len(s) |-> LowerChar(s[i]) ]

RECURSIVE Concat(_)
\* Concatenation of a sequence of texts.
Concat(ss) == IF ss = << >> THEN << >> ELSE Head(ss) \o Concat(Tail(ss))

\* ------------------------------------------------------ model identifiers
Models ==
    { << "D", "e", "e", "p", "S", "e", "e", "k" >>,
      << "r", "e", "T", "h", "i", "n", "k" >>,
      << "g", "p", "t" >> }

\* The identifiers of Models that name a reasoning-capable model.
ReasoningModels ==
    { << "D", "e", "e", "p", "S", "e", "e", "k" >>,
      << "r", "e", "T", "h", "i", "n", "k" >> }

\* Every model taken for a reasoning-capable one.
is_thinking_model_always(mdl) == TRUE

is_thinking_model_deepseekOnly(mdl) ==
    Contains(lower(mdl), << "d", "e", "e", "p", "s", "e", "e", "k" >>)

\* converter.py:164
is_thinking_model(mdl) ==
    \/ Contains(lower(mdl), << "d", "e", "e", "p", "s", "e", "e", "k" >>)
    \/ Contains(lower(mdl), << "t", "h", "i", "n", "k" >>)

\* ------------------------------------------------------- upstream deltas
\* One upstream chunk: `choices` is whether chunk.choices is non-empty,
\* `content` is choices[0].delta.content, `finish_reason` choices[0].finish_reason.
Chunk(c, f) == [ choices |-> TRUE, content |-> c, finish_reason |-> f ]

\* A chunk whose choices list is empty.
EmptyChunk == [ choices |-> FALSE, content |-> None, finish_reason |-> None ]

\* Delta contents the upstream may produce.
DeltaContents ==
    { << >>,
      << " " >>,
      << "h", "e" >>,
      << "l", "l", "o" >> \o Marker,
      << "a", "b", "c", "<", "/", "t", "h", "i" >>,
      << "n", "k", ">", "d", "e", "f" >>,
      << "b" >> \o Marker \o << "c" >>,
      << " " >> \o Marker \o << "x" >> }

FinishReasons == { "stop" }

UpstreamChunks ==
    { Chunk(c, f) :
        c \in { None } \cup { Some(t) : t \in DeltaContents },
        f \in { None } \cup { Some(r) : r \in FinishReasons } }
    \cup { EmptyChunk }

\* The stream ["he", "llo</think>", "world"] followed by a finish_reason delta.
HelloWorldStream ==
    << Chunk(Some(<< "h", "e" >>), None),
       Chunk(Some(<< "l", "l", "o" >> \o Marker), None),
       Chunk(Some(<< "w", "o", "r", "l", "d" >>), None),
       Chunk(None, Some("stop")) >>

\* Every upstream sequence of at most MaxDeltas chunks, and the example stream.
UpstreamSequences ==
    UNION { [ 1 .. n -> UpstreamChunks ] : n \in 0 .. MaxDeltas }
    \cup { HelloWorldStream }

\* generate_response_id(): "chatcmpl-" and a fresh uuid; the n-th call of the
\* process returns the identifier n, distinct from every earlier one.
generate_response_id(calls) == calls + 1

\* get_current_timestamp(): values the clock may return.
Timestamps == { 1700000000 }

ErrorMessages == { "upstream error" }

\* ------------------------------------------------------------- frames
Delta(content, reasoning) == [ role |-> None, content |-> content, reasoning |-> reasoning ]

\* An identifier drawn anew for the chunk.
ChunkFrame_freshId(rid, crt, mdl, delta, fr) ==
    [ kind |-> "chunk", id |-> generate_response_id(rid), created |-> crt, model |-> mdl,
      index |-> 0, delta |-> delta, finish_reason |-> fr ]

\* f"data: {ChatCompletionStreamResponse(...).model_dump_json()}\n\n"
ChunkFrame(rid, crt, mdl, delta, fr) ==
    [ kind |-> "chunk", id |-> rid, created |-> crt, model |-> mdl,
      index |-> 0, delta |-> delta, finish_reason |-> fr ]

\* "data: [DONE]\n\n"
DoneFrame == [ kind |-> "done" ]

\* f"data: {json.dumps(error_response)}\n\n"
ErrorFrame(msg) ==
    [ kind |-> "error", message |-> msg, type |-> "internal_error", code |-> "internal_error" ]

IsReasoningChunk(f) == f.kind = "chunk" /\ f.delta.reasoning # None

IsContentChunk(f) == f.kind = "chunk" /\ f.delta.content # None

IsFinishChunk(f) == f.kind = "chunk" /\ f.finish_reason # None

\* ------------------------------------------------------------- state
VARIABLES
    model,                \* request.model
    upstream,             \* the deltas the backend will produce, in order
    pos,                  \* number of upstream deltas consumed so far
    pc,                   \* "start" | "loop" | "done"
    uuid_calls,           \* number of identifiers generated so far
    response_id,          \* converter.py:147 (0: not assigned yet)
    created,              \* converter.py:148
    accumulated_content,  \* converter.py:151
    in_thinking,          \* converter.py:152
    thinking_buffer,      \* converter.py:153
    thinking_sent,        \* converter.py:154
    emitted,              \* frames yielded so far, in order
    raised,               \* the upstream call or iteration has raised
    sites_fired           \* which '[DONE]' emission sites have fired

\* The state of one streaming request.
stream_vars == << model, upstream, pos, pc, uuid_calls, response_id, created, accumulated_content,
                  in_thinking, thinking_buffer, thinking_sent, emitted, raised, sites_fired >>

\* A call of parse_thinking_content (converter.py:76-90).
VARIABLES
    parse_input,          \* the argument `content`: None or a text
    parse_result          \* None before the call returns, then the returned pair

parse_vars == << parse_input, parse_result >>

\* The process and one HTTP request to it (api_server.py, config.py).
VARIABLES
    hf_token,             \* config.hf_token, from the environment (config.py:14)
    default_model,        \* config.default_model (config.py:27)
    hpc,                  \* "boot" | "crashed" | "ready" | "done"
    route,                \* "chat" (POST /v1/chat/completions) | "models" (GET /v1/models)
    auth_header,          \* the Authorization header: None or a text
    request,              \* the ChatCompletionRequest: [model, messages, stream]
    backend,              \* what the backend answers: [fails, content, catalog]
    used_api_key,         \* None, or the api_key the OpenAI client was built with
    hf_messages,          \* the messages sent upstream
    upstream_calls,       \* number of calls made to the backend
    http_response         \* None, or the response: [status, body]

http_vars == << hf_token, default_model, hpc, route, auth_header, request, backend,
                used_api_key, hf_messages, upstream_calls, http_response >>

\* Several streaming requests in flight at once.
VARIABLES
    streams               \* per request: the local variables of its generator

conc_vars == << streams >>

\* The stream state without the process-wide identifier source.
stream_local_vars == << model, upstream, pos, pc, response_id, created, accumulated_content,
                        in_thinking, thinking_buffer, thinking_sent, emitted, raised, sites_fired >>

vars == << stream_vars, parse_vars, http_vars, conc_vars >>

\* What each part of the model leaves alone.
not_stream_vars == << parse_vars, http_vars, conc_vars >>

not_parse_vars == << stream_vars, http_vars, conc_vars >>

not_http_vars == << stream_local_vars, parse_vars, conc_vars >>

not_conc_vars == << stream_local_vars, parse_vars, http_vars >>

\* No HTTP request is in progress.
HttpIdle ==
    /\ hf_token = << >> /\ default_model = "" /\ hpc = "idle" /\ route = "none"
    /\ auth_header = None /\ request = << >> /\ backend = << >>
    /\ used_api_key = None /\ hf_messages = << >> /\ upstream_calls = 0
    /\ http_response = None

\* No concurrent streams are in flight.
ConcIdle == streams = << >>

\* No call of parse_thinking_content is in progress.
ParseIdle == parse_input = None /\ parse_result = None

\* No streaming request is in progress.
StreamIdle ==
    /\ model = << >> /\ upstream = << >> /\ pos = 0 /\ pc = "idle"
    /\ uuid_calls = 0 /\ response_id = 0 /\ created = 0
    /\ accumulated_content = << >> /\ in_thinking = FALSE
    /\ thinking_buffer = << >> /\ thinking_sent = FALSE
    /\ emitted = << >> /\ raised = FALSE /\ sites_fired = {}

\* --------------------------------------------- one iteration of the loop
\* converter.py:174: the reasoning text is sent only if non-blank and not sent before.
ShouldFlush_noGuard(buf, sent) == strip(buf) # << >>

ShouldFlush(buf, sent) == strip(buf) # << >> /\ ~sent

\* converter.py:175-188: the reasoning chunk, when it is sent.
ReasoningFrames(buf, sent, rid, crt, mdl) ==
    IF ShouldFlush(buf, sent)
    THEN << ChunkFrame(rid, crt, mdl, Delta(None, Some(strip(buf))), None) >>
    ELSE << >>

\* converter.py:196-211: the text after the marker, sent if non-blank.
AfterThinkFrames(after_think, rid, crt, mdl) ==
    IF strip(after_think) # << >>
    THEN << ChunkFrame(rid, crt, mdl, Delta(Some(after_think), None), None) >>
    ELSE << >>

\* The delta forwarded without the test of line 226.
DirectFrames_noGuard(content, rid, crt, mdl) ==
    << ChunkFrame(rid, crt, mdl, Delta(Some(content), None), None) >>

\* converter.py:226-240: a delta forwarded as it is, if non-blank.
DirectFrames(content, rid, crt, mdl) ==
    IF strip(content) # << >>
    THEN << ChunkFrame(rid, crt, mdl, Delta(Some(content), None), None) >>
    ELSE << >>

MarkerFrames_afterFirst(buf, sent, after_think, rid, crt, mdl) ==
    AfterThinkFrames(after_think, rid, crt, mdl) \o ReasoningFrames(buf, sent, rid, crt, mdl)

\* converter.py:174-211: frames yielded by the branch that sees the marker.
MarkerFrames(buf, sent, after_think, rid, crt, mdl) ==
    ReasoningFrames(buf, sent, rid, crt, mdl) \o AfterThinkFrames(after_think, rid, crt, mdl)

ShouldBuffer_inverted(sent, acc) == sent /\ ~Contains(acc, Marker)

\* converter.py:215: no marker seen so far and no reasoning sent: keep buffering.
ShouldBuffer(sent, acc) == ~sent /\ ~Contains(acc, Marker)

\* The content part of one iteration (converter.py:159-240).  s holds the four
\* loop variables; the result adds the frames yielded (`out`) and whether the
\* iteration ended in `continue` (skipping the finish_reason check).
HandleContent(s, chunk, rid, crt, mdl) ==
    IF ~(chunk.choices /\ chunk.content # None)
    THEN [ accumulated_content |-> s.accumulated_content,
           in_thinking |-> s.in_thinking,
           thinking_buffer |-> s.thinking_buffer,
           thinking_sent |-> s.thinking_sent,
           out |-> << >>, continued |-> FALSE ]
    ELSE
    LET content == chunk.content[1]
        acc     == s.accumulated_content \o content
    IN
    IF is_thinking_model(mdl) /\ Contains(content, Marker)
    THEN
        LET think_end_parts == split1(content, Marker)
            buf         == s.thinking_buffer \o think_end_parts[1]
            after_think == IF Len(think_end_parts) > 1 THEN think_end_parts[2] ELSE << >>
        IN [ accumulated_content |-> acc,
             in_thinking |-> FALSE,
             thinking_buffer |-> << >>,
             thinking_sent |-> (s.thinking_sent \/ ShouldFlush(buf, s.thinking_sent)),
             out |-> MarkerFrames(buf, s.thinking_sent, after_think, rid, crt, mdl),
             continued |-> TRUE ]
    ELSE IF is_thinking_model(mdl) /\ ShouldBuffer(s.thinking_sent, acc)
    THEN [ accumulated_content |-> acc,
           in_thinking |-> TRUE,
           thinking_buffer |-> s.thinking_buffer \o content,
           thinking_sent |-> s.thinking_sent,
           out |-> << >>, continued |-> TRUE ]
    ELSE IF is_thinking_model(mdl) /\ s.in_thinking
    THEN [ accumulated_content |-> acc,
           in_thinking |-> s.in_thinking,
           thinking_buffer |-> s.thinking_buffer \o content,
           thinking_sent |-> s.thinking_sent,
           out |-> << >>, continued |-> TRUE ]
    ELSE [ accumulated_content |-> acc,
           in_thinking |-> s.in_thinking,
           thinking_buffer |-> s.thinking_buffer,
           thinking_sent |-> s.thinking_sent,
           out |-> DirectFrames(content, rid, crt, mdl), continued |-> FALSE ]

\* The finish_reason check of one iteration (converter.py:243): reached only
\* when the content part did not `continue`.
FinishDetected(r, chunk) ==
    ~r.continued /\ chunk.choices /\ chunk.finish_reason # None

\* `break` in place of `return`: the fallback after the loop fires as well.
FinishFrames_break(chunk, rid, crt, mdl) ==
    << ChunkFrame(rid, crt, mdl, Delta(None, None), chunk.finish_reason), DoneFrame, DoneFrame >>

\* The sentinel yielded before the finish chunk.
FinishFrames_doneFirst(chunk, rid, crt, mdl) ==
    << DoneFrame, ChunkFrame(rid, crt, mdl, Delta(None, None), chunk.finish_reason) >>

\* Frames yielded by the finish_reason branch (converter.py:245-260).
FinishFrames(chunk, rid, crt, mdl) ==
    << ChunkFrame(rid, crt, mdl, Delta(None, None), chunk.finish_reason), DoneFrame >>

\* ------------------------------------------------------------- actions
Init ==
    /\ model \in Models
    /\ upstream \in UpstreamSequences
    /\ pos = 0
    /\ pc = "start"
    /\ uuid_calls = 0
    /\ response_id = 0
    /\ created = 0
    /\ accumulated_content = << >>
    /\ in_thinking = FALSE
    /\ thinking_buffer = << >>
    /\ thinking_sent = FALSE
    /\ emitted = << >>
    /\ raised = FALSE
    /\ sites_fired = {}
    /\ ParseIdle
    /\ HttpIdle
    /\ ConcIdle

\* converter.py:131-154: the upstream call succeeds, the stream state is set up.
OpenStream ==
    /\ pc = "start"
    /\ pc' = "loop"
    /\ response_id' = generate_response_id(uuid_calls)
    /\ uuid_calls' = uuid_calls + 1
    /\ created' \in Timestamps
    /\ accumulated_content' = << >>
    /\ in_thinking' = FALSE
    /\ thinking_buffer' = << >>
    /\ thinking_sent' = FALSE
    /\ UNCHANGED << model, upstream, pos, emitted, raised, sites_fired >>
    /\ UNCHANGED not_stream_vars

\* The exception swallowed without a frame.
RaiseWith_silent(msg) ==
    /\ emitted' = emitted
    /\ raised' = TRUE
    /\ pc' = "done"

\* converter.py:268-278: the handler of an exception, yielding the error frame.
RaiseWith(msg) ==
    /\ emitted' = Append(emitted, ErrorFrame(msg))
    /\ raised' = TRUE
    /\ pc' = "done"

\* converter.py:137 raises (transport, auth, rate limit).
OpenFails ==
    /\ pc = "start"
    /\ \E msg \in ErrorMessages : RaiseWith(msg)
    /\ UNCHANGED << model, upstream, pos, uuid_calls, response_id, created, accumulated_content,
                    in_thinking, thinking_buffer, thinking_sent, sites_fired >>
    /\ UNCHANGED not_stream_vars

\* converter.py:157-261: one iteration of `for chunk in stream`.
ConsumeDelta ==
    /\ pc = "loop"
    /\ pos < Len(upstream)
    /\ LET chunk == upstream[pos + 1]
           s == [ accumulated_content |-> accumulated_content,
                  in_thinking |-> in_thinking,
                  thinking_buffer |-> thinking_buffer,
                  thinking_sent |-> thinking_sent ]
           r == HandleContent(s, chunk, response_id, created, model)
           fin == FinishDetected(r, chunk)
       IN /\ pos' = pos + 1
          /\ accumulated_content' = r.accumulated_content
          /\ in_thinking' = r.in_thinking
          /\ thinking_buffer' = r.thinking_buffer
          /\ thinking_sent' = r.thinking_sent
          /\ emitted' = emitted \o r.out
                        \o (IF fin THEN FinishFrames(chunk, response_id, created, model)
                                   ELSE << >>)
          /\ sites_fired' = IF fin THEN sites_fired \cup { "finish_reason" } ELSE sites_fired
          /\ pc' = IF fin THEN "done" ELSE "loop"
    /\ UNCHANGED << model, upstream, uuid_calls, response_id, created, raised >>
    /\ UNCHANGED not_stream_vars

\* converter.py:157: fetching the next delta raises.
IterationRaises ==
    /\ pc = "loop"
    /\ \E msg \in ErrorMessages : RaiseWith(msg)
    /\ UNCHANGED << model, upstream, pos, uuid_calls, response_id, created, accumulated_content,
                    in_thinking, thinking_buffer, thinking_sent, sites_fired >>
    /\ UNCHANGED not_stream_vars

\* The generator ending after the loop without the fallback sentinel.
StreamExhausted_silent ==
    /\ pc = "loop"
    /\ pos = Len(upstream)
    /\ emitted' = emitted
    /\ sites_fired' = sites_fired
    /\ pc' = "done"
    /\ UNCHANGED << model, upstream, pos, uuid_calls, response_id, created, accumulated_content,
                    in_thinking, thinking_buffer, thinking_sent, raised >>
    /\ UNCHANGED not_stream_vars

\* converter.py:263-266: the loop ends without a finish_reason.
StreamExhausted ==
    /\ pc = "loop"
    /\ pos = Len(upstream)
    /\ emitted' = Append(emitted, DoneFrame)
    /\ sites_fired' = sites_fired \cup { "fallback" }
    /\ pc' = "done"
    /\ UNCHANGED << model, upstream, pos, uuid_calls, response_id, created, accumulated_content,
                    in_thinking, thinking_buffer, thinking_sent, raised >>
    /\ UNCHANGED not_stream_vars

Next ==
    \/ OpenStream
    \/ OpenFails
    \/ ConsumeDelta
    \/ IterationRaises
    \/ StreamExhausted

Spec == Init /\ [][Next]_vars

\* Longest upstream explored when termination is checked.
MaxFairDeltas == 2

\* A streaming request with any upstream of at most MaxFairDeltas chunks.
InitFair ==
    /\ model \in Models
    /\ upstream \in UNION { [ 1 .. n -> UpstreamChunks ] : n \in 0 .. MaxFairDeltas }
    /\ pos = 0
    /\ pc = "start"
    /\ uuid_calls = 0
    /\ response_id = 0
    /\ created = 0
    /\ accumulated_content = << >>
    /\ in_thinking = FALSE
    /\ thinking_buffer = << >>
    /\ thinking_sent = FALSE
    /\ emitted = << >>
    /\ raised = FALSE
    /\ sites_fired = {}
    /\ ParseIdle
    /\ HttpIdle
    /\ ConcIdle

\* The consumer keeps iterating the generator and the upstream keeps
\* answering (with a delta, its end, or an error): a step that can be taken
\* is taken.
SpecFair == InitFair /\ [][Next]_vars /\ WF_vars(Next)

TypeOK ==
    /\ pc \in { "idle", "start", "loop", "done" }
    /\ pos \in 0 .. Len(upstream)
    /\ in_thinking \in BOOLEAN
    /\ thinking_sent \in BOOLEAN

\* ------------------------------------------------- views of a behaviour
IsDoneFrame(f) == f.kind = "done"

HasContent(chunk) == chunk.choices /\ chunk.content # None

HasFinish(chunk) == chunk.choices /\ chunk.finish_reason # None

\* Number of terminal sentinels yielded so far.
DoneCount == Len(SelectSeq(emitted, IsDoneFrame))

ReasoningChunks == SelectSeq(emitted, IsReasoningChunk)

ContentChunks == SelectSeq(emitted, IsContentChunk)

ReasoningTexts == [ i \in 1 .. Len(ReasoningChunks) |-> ReasoningChunks[i].delta.reasoning[1] ]

ContentTexts == [ i \in 1 .. Len(ContentChunks) |-> ContentChunks[i].delta.content[1] ]

\* The texts of the chunks of cs that carry content, in order.
TextsOf(cs) ==
    LET withContent == SelectSeq(cs, HasContent)
    IN [ i \in 1 .. Len(withContent) |-> withContent[i].content[1] ]

IsNonEmpty(t) == t # << >>

IsNonBlank(t) == strip(t) # << >>

\* The upstream deltas consumed so far, and their text.
Consumed == SubSeq(upstream, 1, pos)

FullText == Concat(TextsOf(Consumed))

\* Indices of the consumed deltas whose own content contains the marker.
MarkerDeltas == { i \in 1 .. pos : HasContent(upstream[i]) /\ Contains(upstream[i].content[1], Marker) }

\* ------------------------------------------------------------- claims

\* C1: a stream whose upstream does not raise ends with the terminal sentinel
\* emitted exactly once, by exactly one of the two emission sites (the
\* finish_reason branch or the end-of-loop fallback); no stream ever holds two.
C1_ExactlyOneDone ==
    /\ DoneCount <= 1
    /\ Cardinality(sites_fired) <= 1
    /\ (pc = "done" /\ ~raised) => (DoneCount = 1 /\ Cardinality(sites_fired) = 1)

C1_Witness ==
    /\ pc = "done" /\ ~raised
    /\ sites_fired = { "finish_reason" }
    /\ DoneCount = 1
    /\ Len(ContentChunks) >= 1

\* C2: the terminal sentinel is the last frame: no frame follows it and no
\* upstream delta is consumed after it.
C2_DoneIsLast ==
    /\ [](\A i \in 1 .. Len(emitted) : IsDoneFrame(emitted[i]) => i = Len(emitted))
    /\ [][DoneCount >= 1 => (emitted' = emitted /\ pos' = pos)]_vars

C2_Witness ==
    /\ pc = "done"
    /\ Len(emitted) >= 3
    /\ IsDoneFrame(emitted[Len(emitted)])
    /\ pos < Len(upstream)

\* C3: whenever the delta just consumed carries a finish_reason, the stream has
\* ended with a finish chunk (that finish_reason, empty delta) followed by the
\* terminal sentinel.
C3_FinishReasonTerminates ==
    (pos > 0 /\ HasFinish(upstream[pos]) /\ ~raised) =>
        /\ pc = "done"
        /\ Len(emitted) >= 2
        /\ emitted[Len(emitted)] = DoneFrame
        /\ emitted[Len(emitted) - 1] =
             ChunkFrame(response_id, created, model, Delta(None, None), upstream[pos].finish_reason)

\* C4: for a pass-through model every consumed delta with non-empty content has
\* yielded exactly one content chunk with that content, so the chunk contents
\* are the non-empty upstream contents in order.
C4_PassThroughFidelity ==
    (model \notin ReasoningModels /\ pc # "start") =>
        ContentTexts = SelectSeq(TextsOf(Consumed), IsNonEmpty)

\* C5: for a reasoning-capable model, when the marker straddles two consecutive
\* deltas (neither contains it, their concatenation does), the finished stream
\* holds a reasoning chunk with the trimmed text before the marker and a
\* content chunk with the text after it.
C5_SplitMarkerDetected ==
    ( /\ model \in ReasoningModels
      /\ pc = "done" /\ ~raised
      /\ pos = 2 /\ HasContent(upstream[1]) /\ HasContent(upstream[2])
      /\ MarkerDeltas = {}
      /\ Contains(FullText, Marker) ) =>
        /\ ReasoningTexts = << strip(split1(FullText, Marker)[1]) >>
        /\ ContentTexts = << split1(FullText, Marker)[2] >>

\* The first consumed delta whose own content holds the marker.
MarkerDelta == CHOOSE i \in MarkerDeltas : \A j \in MarkerDeltas : i <= j

\* The pieces of text that follow the marker, one per delta: the rest of the
\* marker's delta, then the content of every later delta.
PiecesAfterMarker ==
    << split1(upstream[MarkerDelta].content[1], Marker)[2] >>
    \o TextsOf(SubSeq(upstream, MarkerDelta + 1, pos))

\* C6's case: the first marker of the consumed text lies wholly inside one
\* delta, with non-blank text before it, and the stream has just consumed a
\* delta that carries only a finish_reason.
MarkerInsideDelta ==
    /\ model \in ReasoningModels
    /\ pc = "done" /\ ~raised
    /\ pos > 0 /\ HasFinish(upstream[pos]) /\ ~HasContent(upstream[pos])
    /\ MarkerDeltas # {}
    /\ find(FullText, Marker) =
         Len(Concat(TextsOf(SubSeq(upstream, 1, MarkerDelta - 1))))
         + find(upstream[MarkerDelta].content[1], Marker)
    /\ IsNonBlank(split1(FullText, Marker)[1])

\* ... and the marker occurs only once.
SingleMarkerStream ==
    /\ MarkerInsideDelta
    /\ Cardinality(Occurrences(FullText, Marker)) = 1

\* C6: in that case the frames are, in order and once each: the reasoning chunk
\* with the trimmed text before the marker, content chunks, the finish chunk,
\* the terminal sentinel; when the marker occurs once the content chunks are
\* the non-blank pieces after the marker; for ["he", "llo</think>", "world"] +
\* finish the frames are "hello", "world", finish, [DONE].
C6_ReasoningContentFinishDone ==
    /\ MarkerInsideDelta =>
         LET n == Len(emitted) IN
         /\ n >= 3
         /\ IsReasoningChunk(emitted[1])
         /\ ReasoningTexts = << strip(split1(FullText, Marker)[1]) >>
         /\ \A i \in 2 .. (n - 2) : IsContentChunk(emitted[i])
         /\ emitted[n - 1] =
              ChunkFrame(response_id, created, model, Delta(None, None), upstream[pos].finish_reason)
         /\ emitted[n] = DoneFrame
    /\ SingleMarkerStream => ContentTexts = SelectSeq(PiecesAfterMarker, IsNonBlank)
    /\ (upstream = HelloWorldStream /\ model \in ReasoningModels /\ pc = "done" /\ ~raised) =>
         /\ Len(emitted) = 4
         /\ ReasoningTexts = << << "h", "e", "l", "l", "o" >> >>
         /\ ContentTexts = << << "w", "o", "r", "l", "d" >> >>

C6_Witness ==
    /\ upstream = HelloWorldStream
    /\ SingleMarkerStream
    /\ Len(emitted) = 4

\* C7: for a reasoning-capable model, once the consumed text contains the
\* marker, every further delta with non-empty content is emitted at once as a
\* content chunk carrying that delta's text.
C7_FinalModeForwardsEveryDelta ==
    [][ ( /\ model \in ReasoningModels
          /\ pc = "loop"
          /\ Contains(FullText, Marker)
          /\ pos' = pos + 1
          /\ HasContent(upstream[pos + 1])
          /\ IsNonEmpty(upstream[pos + 1].content[1]) )
        => ( /\ Len(emitted') > Len(emitted)
             /\ IsContentChunk(emitted'[Len(emitted) + 1])
             /\ emitted'[Len(emitted) + 1].delta.content = upstream[pos + 1].content ) ]_vars

\* C8: a stream holds at most one reasoning chunk, and its text is never empty
\* or whitespace only.
C8_ReasoningAtMostOnce ==
    /\ Len(ReasoningChunks) <= 1
    /\ \A i \in 1 .. Len(ReasoningTexts) : IsNonBlank(ReasoningTexts[i])

\* Two consumed deltas each hold a marker with non-blank text before it.
C8_Witness ==
    /\ Len(ReasoningChunks) = 1
    /\ Cardinality({ i \in MarkerDeltas :
                       IsNonBlank(split1(upstream[i].content[1], Marker)[1]) }) >= 2

\* C9: for a reasoning-capable model no content chunk has been emitted in any
\* state whose consumed text does not contain the marker.
C9_NoContentBeforeMarker ==
    (model \in ReasoningModels /\ ~Contains(FullText, Marker)) => Len(ContentChunks) = 0

C9_Witness ==
    /\ model \in ReasoningModels
    /\ ~Contains(FullText, Marker)
    /\ pos >= 2
    /\ IsNonBlank(FullText)
    /\ thinking_buffer = FullText
    /\ emitted = << >>

\* C10: for a reasoning-capable model whose consumed text holds no marker, no
\* reasoning chunk and no content chunk has been emitted and all of the text
\* sits in the buffer; when the loop ends through the fallback the stream is
\* the terminal sentinel alone.
C10_NoMarkerOnlySentinel ==
    (model \in ReasoningModels /\ ~Contains(FullText, Marker)) =>
        /\ Len(ReasoningChunks) = 0
        /\ Len(ContentChunks) = 0
        /\ pc # "start" => thinking_buffer = FullText
        /\ (pc = "done" /\ ~raised /\ "fallback" \in sites_fired) => emitted = << DoneFrame >>

C10_Witness ==
    /\ model \in ReasoningModels
    /\ ~Contains(FullText, Marker)
    /\ pc = "done" /\ ~raised
    /\ pos = Len(upstream) /\ pos >= 2
    /\ \A i \in 1 .. pos : ~HasFinish(upstream[i])
    /\ IsNonBlank(thinking_buffer)
    /\ emitted = << DoneFrame >>

IsErrorFrame(f) == f.kind = "error"

\* Number of error frames yielded so far.
ErrorCount == Len(SelectSeq(emitted, IsErrorFrame))

\* C13: when the upstream call or the iteration over the deltas raises, the
\* stream holds exactly one error frame {error: {message, type, code}} and it
\* is the last frame; a stream never holds two error frames.
C13_ErrorFrameLast ==
    /\ ErrorCount <= 1
    /\ raised =>
         /\ pc = "done"
         /\ ErrorCount = 1
         /\ emitted[Len(emitted)] \in
              { [ kind |-> "error", message |-> m,
                  type |-> "internal_error", code |-> "internal_error" ] : m \in ErrorMessages }

\* The iteration raised after a content chunk had been sent.
C13_Witness ==
    /\ raised
    /\ pos >= 1
    /\ Len(emitted) >= 2
    /\ IsContentChunk(emitted[1])
    /\ IsErrorFrame(emitted[Len(emitted)])

\* C19: for a non-reasoning model (identifier holding neither 'deepseek' nor
\* 'think', in any case) the stream is never inspected for the marker: a
\* delta whose content contains '</think>' is forwarded as one content chunk
\* with its text unmodified, and no reasoning chunk is ever emitted.
C19_NonReasoningIgnoresMarker ==
    [][ model \notin ReasoningModels =>
          /\ \A i \in 1 .. Len(emitted') : ~IsReasoningChunk(emitted'[i])
          /\ ( /\ pc = "loop"
               /\ pos' = pos + 1
               /\ HasContent(upstream[pos + 1])
               /\ Contains(upstream[pos + 1].content[1], Marker) )
             => ( /\ Len(emitted') > Len(emitted)
                  /\ IsContentChunk(emitted'[Len(emitted) + 1])
                  /\ emitted'[Len(emitted) + 1].delta.content = upstream[pos + 1].content
                  /\ Len(SelectSeq(emitted', IsContentChunk)) = Len(ContentChunks) + 1 ) ]_vars

\* A non-reasoning model has consumed two deltas that hold the marker and
\* forwarded both.
C19_Witness ==
    /\ model \notin ReasoningModels
    /\ pc = "loop"
    /\ Cardinality(MarkerDeltas) >= 2
    /\ ContentTexts = TextsOf(Consumed)
    /\ ReasoningChunks = << >>

\* C20: a delta whose content is the empty string produces no frame in
\* pass-through mode (non-reasoning model), exactly as a delta with absent
\* content does: nothing but the finish frames when it carries a
\* finish_reason.  In buffering mode (reasoning-capable model, no marker in
\* the consumed text) it leaves the thinking buffer, the accumulated text and
\* the emitted frames unchanged.
C20_EmptyDeltaNoEffect ==
    [][ ( /\ pc = "loop"
          /\ pos' = pos + 1
          /\ HasContent(upstream[pos + 1])
          /\ upstream[pos + 1].content[1] = << >> )
        => ( /\ model \notin ReasoningModels =>
                  IF HasFinish(upstream[pos + 1])
                  THEN /\ Len(emitted') = Len(emitted) + 2
                       /\ SubSeq(emitted', 1, Len(emitted)) = emitted
                       /\ IsFinishChunk(emitted'[Len(emitted) + 1])
                       /\ ~IsContentChunk(emitted'[Len(emitted) + 1])
                       /\ IsDoneFrame(emitted'[Len(emitted) + 2])
                  ELSE emitted' = emitted
             /\ (model \in ReasoningModels /\ ~Contains(FullText, Marker)) =>
                  /\ thinking_buffer' = thinking_buffer
                  /\ accumulated_content' = accumulated_content
                  /\ emitted' = emitted ) ]_vars

\* A non-reasoning model has forwarded one delta and then consumed an empty
\* one without a finish_reason.
C20_Witness ==
    /\ model \notin ReasoningModels
    /\ pc = "loop"
    /\ pos >= 2
    /\ upstream[pos].choices /\ upstream[pos].content = Some(<< >>)
    /\ upstream[pos].finish_reason = None
    /\ Len(emitted) = 1
    /\ IsContentChunk(emitted[1])

\* The chunk frames yielded so far.
IsChunkFrame(f) == f.kind = "chunk"

ChunkFrames == SelectSeq(emitted, IsChunkFrame)

\* C21: every chunk frame of one stream (reasoning, content, finish) carries
\* the same response id, the same created timestamp and the request's model
\* identifier; id and created are fixed once, before the first delta is
\* consumed, and never change during the stream.
C21_SharedFieldsFixed ==
    /\ [](\A i \in 1 .. Len(ChunkFrames) :
            /\ ChunkFrames[i].id = ChunkFrames[1].id
            /\ ChunkFrames[i].created = ChunkFrames[1].created
            /\ ChunkFrames[i].model = model
            /\ ChunkFrames[i].id = response_id
            /\ ChunkFrames[i].created = created)
    /\ []((pos >= 1 \/ pc = "loop") => (response_id # 0 /\ created \in Timestamps))
    /\ [][pc # "start" => (response_id' = response_id /\ created' = created)]_vars

\* A finished stream holding a reasoning, a content and a finish chunk.
C21_Witness ==
    /\ pc = "done" /\ ~raised
    /\ Len(ReasoningChunks) = 1
    /\ Len(ContentChunks) >= 1
    /\ \E i \in 1 .. Len(emitted) : IsFinishChunk(emitted[i])
    /\ Len(ChunkFrames) >= 3
    /\ response_id # 0

\* C23: in every stream of a reasoning-capable model no reasoning chunk is
\* emitted after a content chunk, whatever the upstream deltas are (a first
\* marker with only blank text before it and a later delta holding another
\* '</think>' included): reasoning, if any, comes before all content.
C23_ReasoningBeforeContent ==
    model \in ReasoningModels =>
        \A i, j \in 1 .. Len(emitted) :
            (i < j /\ IsContentChunk(emitted[i])) => ~IsReasoningChunk(emitted[j])

\* C24: for every finite upstream delta sequence (ending normally, with a
\* finish_reason, or with a raised error) the reassembler terminates, and the
\* last frame it emitted is the terminal sentinel or an error frame; it never
\* ends having emitted neither, and emits nothing once it has ended.
C24_TerminatesWithSentinelOrError ==
    /\ <>(pc = "done")
    /\ [](pc = "done" =>
            /\ Len(emitted) >= 1
            /\ \/ IsDoneFrame(emitted[Len(emitted)])
               \/ IsErrorFrame(emitted[Len(emitted)]))
    /\ [][pc = "done" => (pc' = "done" /\ emitted' = emitted)]_vars

\* A reasoning-model stream whose upstream ended with text still buffered and
\* no finish_reason: ended by the fallback sentinel alone.
C24_Witness ==
    /\ pc = "done" /\ ~raised
    /\ pos = Len(upstream) /\ pos >= 2
    /\ thinking_buffer # << >>
    /\ emitted = << DoneFrame >>

\* =================================================================
\* parse_thinking_content (converter.py:76-90), the splitter of the
\* non-streaming path.
\* =================================================================

\* Longest input of parse_thinking_content explored, in pieces.
MaxPieces == 3

\* The literal 8 of converter.py:86, "the length of '</think>'".
MarkerLen == 8

\* The pieces the explored texts are made of.
TextPieces == { << " " >>, << "a" >>, << "b" >>, Marker }

\* Every text made of at most MaxPieces pieces.
PieceTexts == { Concat(ps) : ps \in UNION { [ 1 .. n -> TextPieces ] : n \in 0 .. MaxPieces } }

\* The arguments explored: None and every such text.
ParseInputs == { None } \cup { Some(t) : t \in PieceTexts }

\* The split at the last marker instead of the first.
parse_thinking_content_last(content) ==
    IF content = None THEN << << >>, << >> >>
    ELSE LET t == content[1] IN
         IF Contains(t, Marker)
         THEN LET p == CHOOSE i \in Occurrences(t, Marker) : \A j \in Occurrences(t, Marker) : j <= i
              IN << strip(SubSeq(t, 1, p - 1)), strip(SubSeq(t, p + MarkerLen, Len(t))) >>
         ELSE << << >>, t >>

\* The text without a marker returned trimmed.
parse_thinking_content_trimmed(content) ==
    IF content = None THEN << << >>, << >> >>
    ELSE LET t == content[1] IN
         IF Contains(t, Marker)
         THEN << strip(SubSeq(t, 1, find(t, Marker) - 1)),
                 strip(SubSeq(t, find(t, Marker) + MarkerLen, Len(t))) >>
         ELSE << << >>, strip(t) >>

\* converter.py:76-90: the pair (thinking_content, final_content).  find is
\* 1-based here, so content[:end_pos] is SubSeq(t, 1, find - 1) and
\* content[end_pos + 8:] is SubSeq(t, find + 8, Len(t)).
parse_thinking_content(content) ==
    IF content = None THEN << << >>, << >> >>
    ELSE LET t == content[1] IN
         IF Contains(t, Marker)
         THEN << strip(SubSeq(t, 1, find(t, Marker) - 1)),
                 strip(SubSeq(t, find(t, Marker) + MarkerLen, Len(t))) >>
         ELSE << << >>, t >>

InitParse ==
    /\ parse_input \in ParseInputs
    /\ parse_result = None
    /\ StreamIdle
    /\ HttpIdle
    /\ ConcIdle

\* One call of parse_thinking_content returns.
ParseThinkingContent ==
    /\ parse_result = None
    /\ parse_result' = Some(parse_thinking_content(parse_input))
    /\ UNCHANGED parse_input
    /\ UNCHANGED not_parse_vars

NextParse == ParseThinkingContent

SpecParse == InitParse /\ [][NextParse]_vars

\* C11: the result for a text A + '</think>' + B', A holding no marker, is
\* (trim(A), trim(B')): the first marker alone splits the text and later
\* markers stay in the final text.
C11_FirstMarkerSplits ==
    (parse_result # None /\ parse_input # None) =>
        LET t == parse_input[1] IN
        \A i \in 0 .. (Len(t) - Len(Marker)) :
            ( /\ SubSeq(t, i + 1, i + Len(Marker)) = Marker
              /\ ~Contains(SubSeq(t, 1, i), Marker) )
            => parse_result[1] =
                 << strip(SubSeq(t, 1, i)), strip(SubSeq(t, i + Len(Marker) + 1, Len(t))) >>

\* A text with two markers: the second one is still in the final text.
C11_Witness ==
    /\ parse_result # None /\ parse_input # None
    /\ Cardinality(Occurrences(parse_input[1], Marker)) = 2
    /\ Contains(parse_result[1][2], Marker)
    /\ parse_result[1][1] # << >>

\* C12: a text without a marker comes back as ("", text), untrimmed; the empty
\* text and None give ("", "").
C12_NoMarkerUnchanged ==
    parse_result # None =>
        /\ parse_input = None => parse_result[1] = << << >>, << >> >>
        /\ (parse_input # None /\ ~Contains(parse_input[1], Marker))
             => parse_result[1] = << << >>, parse_input[1] >>
        /\ parse_input = Some(<< >>) => parse_result[1] = << << >>, << >> >>

\* A text without a marker that starts and ends with a blank.
C12_Witness ==
    /\ parse_input = Some(<< " ", "a", " " >>)
    /\ parse_result = Some(<< << >>, << " ", "a", " " >> >>)

\* =================================================================
\* The process and its two routes (api_server.py), with the
\* non-streaming path of the converter.
\* =================================================================

\* Longest message list of a request explored.
MaxMessages == 2

\* Values of the HF_TOKEN environment variable (config.py:14).
EnvTokens == { << >>, << "s", "r", "v" >> }

\* The default of DEFAULT_MODEL (config.py:27).
DefaultModel == "openai/gpt-oss-120b:fireworks-ai"

\* The placeholder key of converter.py:43, as one opaque symbol.
Placeholder == << "client-api-key-required" >>

\* "Bearer " (api_server.py:116).
BearerPrefix == << "B", "e", "a", "r", "e", "r", " " >>

\* The 7 of auth_header[7:] (api_server.py:117).
BearerLen == 7

\* Authorization headers explored: absent, empty, "Bearer " alone,
\* "Bearer key", "Basic k", "bearer k".
AuthHeaders ==
    { None,
      Some(<< >>),
      Some(BearerPrefix),
      Some(BearerPrefix \o << "k", "e", "y" >>),
      Some(<< "B", "a", "s", "i", "c", " ", "k" >>),
      Some(<< "b", "e", "a", "r", "e", "r", " ", "k" >>) }

\* str.startswith
startswith(s, pre) == Len(s) >= Len(pre) /\ SubSeq(s, 1, Len(pre)) = pre

\* api_server.py:114-117 (and 175-178): the key taken from the header.
client_api_key(header) ==
    IF header # None /\ header[1] # << >> /\ startswith(header[1], BearerPrefix)
    THEN Some(SubSeq(header[1], BearerLen + 1, Len(header[1])))
    ELSE None

\* converter.py:35-43: the key the OpenAI client is built with.
effective_api_key(api_key, token) ==
    IF api_key # None /\ api_key[1] # << >> THEN api_key[1]
    ELSE IF token # << >> THEN token
    ELSE Placeholder

\* Message contents explored: two strings and a list of content parts
\* (abstracted to the text of its one text part).
MessageContents ==
    { [ kind |-> "str",   value |-> << "a", " ", "b", " ", " ", "a", "b" >> ],
      [ kind |-> "str",   value |-> << >> ],
      [ kind |-> "parts", value |-> << "a" >> ] }

\* models.py:36-41
ChatMessages ==
    { [ role |-> r, content |-> c, name |-> x[1], reasoning |-> x[2] ] :
        r \in { "user", "assistant" },
        c \in MessageContents,
        x \in { << None, None >>, << Some("n"), Some(<< "r" >>) >> } }

MessageLists == UNION { [ 1 .. n -> ChatMessages ] : n \in 0 .. MaxMessages }

\* Texts the backend may return as choices[0].message.content.
ReplyContents ==
    { None,
      Some(<< >>),
      Some(<< "a", " ", "b", " ", "a" >>),
      Some(<< " ", "a", " " >>),
      Some(<< "a", "b" >> \o Marker \o << "a", " ", "b" >>),
      Some(<< " " >> \o Marker \o << " ", "b", " ", "a" >>),
      Some(<< "a" >> \o Marker \o << "b" >> \o Marker \o << " ", "a", " " >>) }

\* The messages sent in the opposite order.
convert_messages_to_hf_format_reversed(messages) ==
    [ i \in 1 .. Len(messages) |->
        [ role |-> messages[Len(messages) + 1 - i].role,
          content |-> messages[Len(messages) + 1 - i].content ] ]

\* converter.py:51-59: role and content of every message, in order.
convert_messages_to_hf_format(messages) ==
    [ i \in 1 .. Len(messages) |->
        [ role |-> messages[i].role, content |-> messages[i].content ] ]

\* len(text.split()): the number of maximal runs of non-blank characters.
WordCount(t) ==
    Cardinality({ i \in 1 .. Len(t) :
                    t[i] \notin Whitespace /\ (i = 1 \/ t[i - 1] \in Whitespace) })

\* converter.py:69-74, for None or a string.
estimate_tokens(text) ==
    IF text = None THEN 0
    ELSE WordCount(text[1]) + (Len(text[1]) \div 4)

\* estimate_tokens on a list of content parts raises (a list has no split).
EstimateRaises(messages) == \E i \in 1 .. Len(messages) : messages[i].content.kind = "parts"

RECURSIVE PromptTokens(_)
\* converter.py:289: the sum of the estimates over the request's messages.
PromptTokens(messages) ==
    IF messages = << >> THEN 0
    ELSE estimate_tokens(Some(Head(messages).content.value)) + PromptTokens(Tail(messages))

\* The estimate taken on the final text instead of the raw text.
completion_tokens_onFinal(raw_content, final_content) == estimate_tokens(Some(final_content))

\* converter.py:290
completion_tokens(raw_content, final_content) == estimate_tokens(Some(raw_content))

\* The raw text sent as the content, marker and reasoning included.
convert_hf_response_to_openai_rawContent(reply, mdl, messages, rid, now) ==
    LET raw_content == IF reply = None \/ reply = Some(<< >>) THEN << >> ELSE reply[1]
        split == parse_thinking_content(Some(raw_content))
        thinking_content == split[1]
        final_content == split[2]
        prompt == PromptTokens(messages)
        completion == completion_tokens(raw_content, final_content)
    IN [ id |-> rid, object |-> "chat.completion", created |-> now, model |-> mdl,
         choices |-> << [ index |-> 0,
                          message |-> [ role |-> "assistant",
                                        content |-> raw_content,
                                        name |-> None,
                                        reasoning |-> IF thinking_content # << >>
                                                      THEN Some(thinking_content) ELSE None ],
                          finish_reason |-> Some("stop") ] >>,
         usage |-> [ prompt_tokens |-> prompt,
                     completion_tokens |-> completion,
                     total_tokens |-> prompt + completion ] ]

\* converter.py:280-312.  reply is choices[0].message.content of the backend.
convert_hf_response_to_openai(reply, mdl, messages, rid, now) ==
    LET raw_content == IF reply = None \/ reply = Some(<< >>) THEN << >> ELSE reply[1]
        split == parse_thinking_content(Some(raw_content))
        thinking_content == split[1]
        final_content == split[2]
        prompt == PromptTokens(messages)
        completion == completion_tokens(raw_content, final_content)
    IN [ id |-> rid, object |-> "chat.completion", created |-> now, model |-> mdl,
         choices |-> << [ index |-> 0,
                          message |-> [ role |-> "assistant",
                                        content |-> final_content,
                                        name |-> None,
                                        reasoning |-> IF thinking_content # << >>
                                                      THEN Some(thinking_content) ELSE None ],
                          finish_reason |-> Some("stop") ] >>,
         usage |-> [ prompt_tokens |-> prompt,
                     completion_tokens |-> completion,
                     total_tokens |-> prompt + completion ] ]

\* api_server.py:152-161 and FastAPI's handler of HTTPException, which sends
\* {"detail": <detail>} with the exception's status code.
http_exception(msg) ==
    [ status |-> 500,
      body |-> [ detail |-> [ error |-> [ message |-> msg,
                                          type |-> "internal_error",
                                          code |-> "internal_error" ] ] ] ]

\* Longest catalog the backend's models.list() returns.
MaxCatalog == 2

\* Entries of the backend's catalog; created and owned_by may be missing.
CatalogEntries ==
    { [ id |-> i, created |-> c, owned_by |-> o ] :
        i \in { "m1", "m2" },
        c \in { None, Some(1600000000) },
        o \in { None, Some("org") } }

Catalogs == UNION { [ 1 .. n -> CatalogEntries ] : n \in 0 .. MaxCatalog }

\* The failure branch answering with an empty list.
get_models_emptyOnFailure(fails, catalog, dflt, now) ==
    IF fails
    THEN [ object |-> "list", data |-> << >> ]
    ELSE [ object |-> "list",
           data |-> [ i \in 1 .. Len(catalog) |->
                        [ id |-> catalog[i].id, object |-> "model",
                          created |-> IF catalog[i].created = None THEN now
                                      ELSE catalog[i].created[1],
                          owned_by |-> IF catalog[i].owned_by = None THEN "huggingface"
                                       ELSE catalog[i].owned_by[1] ] ] ]

\* converter.py:314-344.  fails: client.models.list() raised.
get_models(fails, catalog, dflt, now) ==
    IF fails
    THEN [ object |-> "list",
           data |-> << [ id |-> dflt, object |-> "model",
                         created |-> now, owned_by |-> "huggingface" ] >> ]
    ELSE [ object |-> "list",
           data |-> [ i \in 1 .. Len(catalog) |->
                        [ id |-> catalog[i].id, object |-> "model",
                          created |-> IF catalog[i].created = None THEN now
                                      ELSE catalog[i].created[1],
                          owned_by |-> IF catalog[i].owned_by = None THEN "huggingface"
                                       ELSE catalog[i].owned_by[1] ] ] ]

\* What the backend does with the one call of a request.
ChatBackends ==
    { [ fails |-> FALSE, error |-> "", reply |-> r, catalog |-> << >> ] : r \in ReplyContents }
    \cup { [ fails |-> TRUE, error |-> e, reply |-> None, catalog |-> << >> ] : e \in ErrorMessages }

ModelsBackends ==
    { [ fails |-> FALSE, error |-> "", reply |-> None, catalog |-> c ] : c \in Catalogs }
    \cup { [ fails |-> TRUE, error |-> e, reply |-> None, catalog |-> << >> ] : e \in ErrorMessages }

\* models.py:44-57, the fields the non-streaming path reads.
ChatRequests ==
    { [ model |-> m, messages |-> ms, stream |-> FALSE ] :
        m \in { << "D", "e", "e", "p", "S", "e", "e", "k" >>, << "g", "p", "t" >> },
        ms \in MessageLists }

\* A process about to import config.py, and one request waiting for it.
InitHttp ==
    /\ hf_token \in EnvTokens
    /\ default_model = DefaultModel
    /\ hpc = "boot"
    /\ auth_header \in AuthHeaders
    /\ \/ route = "chat" /\ request \in ChatRequests /\ backend \in ChatBackends
       \/ route = "models" /\ request = << >> /\ backend \in ModelsBackends
    /\ used_api_key = None
    /\ hf_messages = << >>
    /\ upstream_calls = 0
    /\ http_response = None
    /\ uuid_calls = 0
    /\ model = << >> /\ upstream = << >> /\ pos = 0 /\ pc = "idle"
    /\ response_id = 0 /\ created = 0 /\ accumulated_content = << >>
    /\ in_thinking = FALSE /\ thinking_buffer = << >> /\ thinking_sent = FALSE
    /\ emitted = << >> /\ raised = FALSE /\ sites_fired = {}
    /\ ParseIdle
    /\ ConcIdle

\* config.py:12-33 with a token: the module imports, the server starts.
ConfigValid ==
    /\ hpc = "boot"
    /\ hf_token # << >>
    /\ hpc' = "ready"
    /\ UNCHANGED << hf_token, default_model, route, auth_header, request, backend,
                    used_api_key, hf_messages, upstream_calls, http_response, uuid_calls >>
    /\ UNCHANGED not_http_vars

\* config.py:35-38 without a token: ValueError at import, no server.
ConfigInvalid ==
    /\ hpc = "boot"
    /\ hf_token = << >>
    /\ hpc' = "crashed"
    /\ UNCHANGED << hf_token, default_model, route, auth_header, request, backend,
                    used_api_key, hf_messages, upstream_calls, http_response, uuid_calls >>
    /\ UNCHANGED not_http_vars

\* api_server.py:113-148 down to the upstream call of converter.py:101-109.
CallUpstream ==
    /\ used_api_key' = Some(effective_api_key(client_api_key(auth_header), hf_token))
    /\ upstream_calls' = upstream_calls + 1
    /\ hpc' = "done"
    /\ UNCHANGED << hf_token, default_model, route, auth_header, request, backend >>
    /\ UNCHANGED not_http_vars

\* POST /v1/chat/completions, stream false, the backend answers.
ChatSucceeds ==
    /\ hpc = "ready" /\ route = "chat" /\ ~request.stream
    /\ ~backend.fails /\ ~EstimateRaises(request.messages)
    /\ CallUpstream
    /\ hf_messages' = convert_messages_to_hf_format(request.messages)
    /\ uuid_calls' = uuid_calls + 1
    /\ \E now \in Timestamps :
         http_response' =
            Some([ status |-> 200,
                   body |-> convert_hf_response_to_openai(backend.reply, request.model,
                               request.messages, generate_response_id(uuid_calls), now) ])

\* POST /v1/chat/completions, stream false, the upstream call raises.
ChatUpstreamFails ==
    /\ hpc = "ready" /\ route = "chat" /\ ~request.stream
    /\ backend.fails
    /\ CallUpstream
    /\ hf_messages' = convert_messages_to_hf_format(request.messages)
    /\ uuid_calls' = uuid_calls
    /\ http_response' = Some(http_exception(backend.error))

\* POST /v1/chat/completions, stream false, the backend answers and the
\* token estimate raises on a message whose content is a list of parts.
ChatConversionFails ==
    /\ hpc = "ready" /\ route = "chat" /\ ~request.stream
    /\ ~backend.fails /\ EstimateRaises(request.messages)
    /\ CallUpstream
    /\ hf_messages' = convert_messages_to_hf_format(request.messages)
    /\ uuid_calls' = uuid_calls
    /\ http_response' = Some(http_exception("'list' object has no attribute 'split'"))

\* GET /v1/models (api_server.py:164-203).
ListModels ==
    /\ hpc = "ready" /\ route = "models"
    /\ CallUpstream
    /\ hf_messages' = hf_messages
    /\ uuid_calls' = uuid_calls
    /\ \E now \in Timestamps :
         http_response' =
            Some([ status |-> 200,
                   body |-> get_models(backend.fails, backend.catalog, default_model, now) ])

NextHttp ==
    \/ ConfigValid
    \/ ConfigInvalid
    \/ ChatSucceeds
    \/ ChatUpstreamFails
    \/ ChatConversionFails
    \/ ListModels

SpecHttp == InitHttp /\ [][NextHttp]_vars

\* ------------------------------------------------ claims on the routes
\* The request has been answered.
Answered == hpc = "done" /\ http_response # None

\* The text of choices[0].message.content the backend returned, '' for None.
RawReply == IF backend.reply = None THEN << >> ELSE backend.reply[1]

\* C14: for every non-streaming request that returns a response,
\* usage.total_tokens = usage.prompt_tokens + usage.completion_tokens, where
\* completion_tokens is the estimate of the raw upstream text (before the
\* reasoning/final split) and prompt_tokens is the sum of the estimates over
\* all the request's messages.
C14_UsageTotals ==
    (route = "chat" /\ Answered /\ http_response[1].status = 200) =>
        LET usage == http_response[1].body.usage
        IN /\ usage.total_tokens = usage.prompt_tokens + usage.completion_tokens
           /\ usage.completion_tokens = estimate_tokens(Some(RawReply))
           /\ usage.prompt_tokens = PromptTokens(request.messages)

\* A response to two messages whose raw reply splits at the marker, so that
\* the estimate of the raw text differs from the estimate of the final text.
C14_Witness ==
    /\ route = "chat" /\ Answered /\ http_response[1].status = 200
    /\ Len(request.messages) = 2
    /\ Contains(RawReply, Marker)
    /\ LET body == http_response[1].body
       IN /\ body.usage.prompt_tokens > 0
          /\ body.usage.completion_tokens
                # estimate_tokens(Some(body.choices[1].message.content))
          /\ body.usage.total_tokens > body.usage.completion_tokens

\* The credential the priority order names, from the header and the
\* environment.
ResolvedCredential ==
    LET bearer == /\ auth_header # None
                  /\ Len(auth_header[1]) >= Len(BearerPrefix)
                  /\ SubSeq(auth_header[1], 1, Len(BearerPrefix)) = BearerPrefix
        token == SubSeq(auth_header[1], Len(BearerPrefix) + 1, Len(auth_header[1]))
    IN IF bearer /\ token # << >> THEN token
       ELSE IF hf_token # << >> THEN hf_token
       ELSE Placeholder

\* C15: the upstream credential is resolved in strict priority order: the
\* token of the inbound 'Authorization: Bearer <token>' header when present
\* and non-empty, otherwise the configured server-side default, otherwise the
\* placeholder 'client-api-key-required'; a header not starting with
\* 'Bearer ' counts as absent.  So a process without a server-side default
\* is one that serves requests, and every request served goes upstream with
\* the credential of that order.
C15_CredentialResolution ==
    /\ hpc # "crashed"
    /\ hpc = "done" => used_api_key = Some(ResolvedCredential)

\* C17: get_models returns the backend's catalog when the backend call
\* succeeds; when it fails, the answer is a list of exactly one entry whose
\* id is the configured default model, and nothing is raised to the caller.
C17_ModelsCatalogOrFallback ==
    (route = "models" /\ Answered) =>
        /\ http_response[1].status = 200
        /\ LET data == http_response[1].body.data
           IN IF backend.fails
              THEN Len(data) = 1 /\ data[1].id = default_model
              ELSE /\ Len(data) = Len(backend.catalog)
                   /\ \A i \in 1 .. Len(data) : data[i].id = backend.catalog[i].id

\* The models route answered after its backend call failed.
C17_Witness ==
    /\ route = "models" /\ Answered /\ backend.fails
    /\ upstream_calls = 1
    /\ http_response[1].body.data[1].id = DefaultModel

\* C18: when a non-streaming request's upstream call fails, the client gets
\* status 500 with the JSON body {error: {message, type, code}}, and the proxy
\* made at most one upstream call.
C18_UpstreamFailureEnvelope ==
    (route = "chat" /\ Answered /\ backend.fails) =>
        /\ http_response[1].status = 500
        /\ upstream_calls <= 1
        /\ DOMAIN http_response[1].body = { "error" }
        /\ DOMAIN http_response[1].body.error = { "message", "type", "code" }

\* C22: convert_messages_to_hf_format returns a list as long as the
\* request's messages whose i-th entry has the role and content of the i-th
\* request message: nothing is reordered, dropped, merged or duplicated, and
\* the reasoning and name fields are not sent upstream.
C22_MessagesForwardedInOrder ==
    (route = "chat" /\ hpc = "done") =>
        /\ Len(hf_messages) = Len(request.messages)
        /\ \A i \in 1 .. Len(hf_messages) :
             /\ hf_messages[i].role = request.messages[i].role
             /\ hf_messages[i].content = request.messages[i].content
             /\ DOMAIN hf_messages[i] = { "role", "content" }

\* Two different messages, the first with a name and a reasoning, went upstream.
C22_Witness ==
    /\ route = "chat" /\ hpc = "done"
    /\ Len(hf_messages) = 2
    /\ request.messages[1] # request.messages[2]
    /\ request.messages[1].name # None
    /\ request.messages[1].reasoning # None
    /\ upstream_calls = 1

\* C25: in a non-streaming response, message.content is the final part that
\* parse_thinking_content gives for the upstream text (absent text counting
\* as ''), and message.reasoning is present exactly when the trimmed text
\* before the first '</think>' is non-empty; with no marker in the upstream
\* text, content is that text unchanged and reasoning is absent.
C25_ResponseContentAndReasoning ==
    (route = "chat" /\ Answered /\ http_response[1].status = 200) =>
        LET message == http_response[1].body.choices[1].message
            at == find(RawReply, Marker)
            before == strip(SubSeq(RawReply, 1, at - 1))
            after == strip(SubSeq(RawReply, at + Len(Marker), Len(RawReply)))
        IN IF Contains(RawReply, Marker)
           THEN /\ message.content = after
                /\ (message.reasoning # None) <=> (before # << >>)
                /\ message.reasoning # None => message.reasoning = Some(before)
           ELSE /\ message.content = RawReply
                /\ message.reasoning = None

\* A reply with only blank text before its marker: no reasoning, and the
\* content is the trimmed text after the marker.
C25_Witness ==
    /\ route = "chat" /\ Answered /\ http_response[1].status = 200
    /\ Contains(RawReply, Marker)
    /\ http_response[1].body.choices[1].message.reasoning = None
    /\ http_response[1].body.choices[1].message.content # << >>
    /\ http_response[1].body.choices[1].message.content # RawReply

\* =================================================================
\* Several streaming requests in flight: each is its own instance of
\* the generator create_chat_completion_stream, with its own locals;
\* the converter object they share holds only the configuration.
\* =================================================================

\* Longest upstream of a concurrent stream explored.
MaxConcurrentDeltas == 2

StreamIds == { 1, 2 }

ConcurrentModels == { << "D", "e", "e", "p", "S", "e", "e", "k" >>, << "g", "p", "t" >> }

ConcurrentChunks ==
    { Chunk(Some(<< "h", "e" >>), None),
      Chunk(Some(<< "b" >> \o Marker \o << "c" >>), None),
      Chunk(None, Some("stop")) }

ConcurrentUpstreams == UNION { [ 1 .. n -> ConcurrentChunks ] : n \in 0 .. MaxConcurrentDeltas }

\* The locals of a generator that has not run yet (converter.py:123-129).
NewStream(mdl, ups) ==
    [ model |-> mdl, upstream |-> ups, pos |-> 0, pc |-> "start",
      response_id |-> 0, created |-> 0,
      accumulated_content |-> << >>, in_thinking |-> FALSE,
      thinking_buffer |-> << >>, thinking_sent |-> FALSE,
      emitted |-> << >>, raised |-> FALSE ]

\* The four loop variables kept in one place for every generator.
LocalState_shared(ss, i) ==
    [ ss[i] EXCEPT !.accumulated_content = ss[1].accumulated_content,
                   !.in_thinking = ss[1].in_thinking,
                   !.thinking_buffer = ss[1].thinking_buffer,
                   !.thinking_sent = ss[1].thinking_sent ]

\* converter.py:147-154: response_id, created and the four loop variables are
\* locals of the generator instance serving request i.
LocalState(ss, i) == ss[i]

InitConcurrent ==
    /\ streams \in [ StreamIds -> { NewStream(m, u) : m \in ConcurrentModels,
                                                      u \in ConcurrentUpstreams } ]
    /\ StreamIdle
    /\ ParseIdle
    /\ HttpIdle

\* converter.py:131-154 for request i.
OpenStreamOf(i) ==
    /\ LocalState(streams, i).pc = "start"
    /\ \E now \in Timestamps :
         streams' = [ streams EXCEPT ![i] =
                        [ LocalState(streams, i) EXCEPT
                            !.pc = "loop",
                            !.response_id = generate_response_id(uuid_calls),
                            !.created = now ] ]
    /\ uuid_calls' = uuid_calls + 1
    /\ UNCHANGED not_conc_vars

\* converter.py:268-278 for request i: the error frame, then the generator ends.
RaiseIn(i, msg) ==
    streams' = [ streams EXCEPT ![i] =
                   [ LocalState(streams, i) EXCEPT
                       !.emitted = Append(@, ErrorFrame(msg)),
                       !.raised = TRUE,
                       !.pc = "done" ] ]

\* converter.py:137 raises for request i.
OpenFailsOf(i) ==
    /\ LocalState(streams, i).pc = "start"
    /\ \E msg \in ErrorMessages : RaiseIn(i, msg)
    /\ UNCHANGED uuid_calls
    /\ UNCHANGED not_conc_vars

\* converter.py:157-261: one iteration of request i's loop.
ConsumeDeltaOf(i) ==
    LET s == LocalState(streams, i)
    IN /\ s.pc = "loop"
       /\ s.pos < Len(s.upstream)
       /\ LET chunk == s.upstream[s.pos + 1]
              r == HandleContent(s, chunk, s.response_id, s.created, s.model)
              fin == FinishDetected(r, chunk)
          IN streams' = [ streams EXCEPT ![i] =
                            [ s EXCEPT
                                !.pos = s.pos + 1,
                                !.accumulated_content = r.accumulated_content,
                                !.in_thinking = r.in_thinking,
                                !.thinking_buffer = r.thinking_buffer,
                                !.thinking_sent = r.thinking_sent,
                                !.emitted = s.emitted \o r.out
                                            \o (IF fin
                                                THEN FinishFrames(chunk, s.response_id,
                                                                  s.created, s.model)
                                                ELSE << >>),
                                !.pc = IF fin THEN "done" ELSE "loop" ] ]
       /\ UNCHANGED uuid_calls
       /\ UNCHANGED not_conc_vars

\* converter.py:157: fetching request i's next delta raises.
IterationRaisesOf(i) ==
    /\ LocalState(streams, i).pc = "loop"
    /\ \E msg \in ErrorMessages : RaiseIn(i, msg)
    /\ UNCHANGED uuid_calls
    /\ UNCHANGED not_conc_vars

\* converter.py:263-266: request i's loop ends without a finish_reason.
StreamExhaustedOf(i) ==
    LET s == LocalState(streams, i)
    IN /\ s.pc = "loop"
       /\ s.pos = Len(s.upstream)
       /\ streams' = [ streams EXCEPT ![i] =
                         [ s EXCEPT !.emitted = Append(@, DoneFrame), !.pc = "done" ] ]
       /\ UNCHANGED uuid_calls
       /\ UNCHANGED not_conc_vars

OpenStreamAny == \E i \in StreamIds : OpenStreamOf(i)

OpenFailsAny == \E i \in StreamIds : OpenFailsOf(i)

ConsumeDeltaAny == \E i \in StreamIds : ConsumeDeltaOf(i)

IterationRaisesAny == \E i \in StreamIds : IterationRaisesOf(i)

StreamExhaustedAny == \E i \in StreamIds : StreamExhaustedOf(i)

\* Any interleaving of the requests' steps.
NextConcurrent ==
    \/ OpenStreamAny
    \/ OpenFailsAny
    \/ ConsumeDeltaAny
    \/ IterationRaisesAny
    \/ StreamExhaustedAny

SpecConcurrent == InitConcurrent /\ [][NextConcurrent]_vars

\* ------------------------------------------- claim on concurrent streams
RECURSIVE RunAlone(_, _, _, _, _)
\* The loop variables and frames of a request served alone, after n deltas.
RunAlone(mdl, ups, n, rid, crt) ==
    IF n = 0
    THEN [ accumulated_content |-> << >>, in_thinking |-> FALSE,
           thinking_buffer |-> << >>, thinking_sent |-> FALSE,
           emitted |-> << >>, finished |-> FALSE ]
    ELSE LET p == RunAlone(mdl, ups, n - 1, rid, crt)
             r == HandleContent(p, ups[n], rid, crt, mdl)
             fin == FinishDetected(r, ups[n])
         IN [ accumulated_content |-> r.accumulated_content,
              in_thinking |-> r.in_thinking,
              thinking_buffer |-> r.thinking_buffer,
              thinking_sent |-> r.thinking_sent,
              emitted |-> p.emitted \o r.out
                          \o (IF fin THEN FinishFrames(ups[n], rid, crt, mdl) ELSE << >>),
              finished |-> fin ]

\* Stream state s is what the request's own model and deltas give when it
\* is served alone: the loop variables, and the frames with their ending.
AsServedAlone(s) ==
    LET alone == RunAlone(s.model, s.upstream, s.pos, s.response_id, s.created)
    IN /\ s.accumulated_content = alone.accumulated_content
       /\ s.in_thinking = alone.in_thinking
       /\ s.thinking_buffer = alone.thinking_buffer
       /\ s.thinking_sent = alone.thinking_sent
       /\ IF s.raised
          THEN \E msg \in ErrorMessages : s.emitted = alone.emitted \o << ErrorFrame(msg) >>
          ELSE IF s.pc = "done" /\ ~alone.finished
          THEN s.emitted = alone.emitted \o << DoneFrame >>
          ELSE s.emitted = alone.emitted

\* C16: concurrent requests are isolated.  Under every interleaving of the
\* in-flight streams, the frames of a stream (reasoning, content and finish
\* chunks, sentinel, error frame) and its state (accumulated text, thinking
\* buffer, thinking-sent flag) are those its own model and upstream deltas
\* give when it is served alone; streams have different response ids; and a
\* step of one request, its failure included, leaves the state of every
\* other stream unchanged.
C16_StreamsIsolated ==
    /\ [](\A i \in StreamIds : AsServedAlone(streams[i]))
    /\ [](\A i, j \in StreamIds :
            (i # j /\ streams[i].response_id # 0 /\ streams[j].response_id # 0)
                => streams[i].response_id # streams[j].response_id)
    /\ [][ \A i, j \in StreamIds :
             /\ streams'[i].model = streams[i].model
             /\ streams'[i].upstream = streams[i].upstream
             /\ (i # j /\ streams'[i] # streams[i]) => streams'[j] = streams[j] ]_vars

\* Two reasoning-model streams were open together; the first buffered text
\* and then failed, the second, opened earlier, ran to its end with a
\* reasoning chunk of its own text.
C16_Witness ==
    /\ streams[1].model \in ReasoningModels /\ streams[2].model \in ReasoningModels
    /\ streams[1].raised /\ streams[1].pos = 1 /\ streams[1].thinking_buffer # << >>
    /\ streams[2].response_id # 0 /\ streams[2].response_id < streams[1].response_id
    /\ streams[2].pc = "done" /\ ~streams[2].raised /\ streams[2].pos = 2
    /\ Len(streams[2].emitted) = 3
    /\ IsReasoningChunk(streams[2].emitted[1])
====
